---- MODULE Spec2Model ----
(***************************************************************************)
(* Model of the useGameState hook (falling-tile rhythm game engine).       *)
(*                                                                         *)
(* Numbers that are fractions in the source are kept exact by scaling:     *)
(*   gameSpeed  is stored multiplied by SpeedScale (1.0 -> 50, 3.0 -> 150) *)
(*   position   is stored multiplied by PosScale   (1 px -> 125)           *)
(*   accuracy   is a fraction <<numerator, denominator>>                   *)
(* The code reads the clock only through differences of Date.now(), so     *)
(* times are stored as differences, in milliseconds:                       *)
(*   tile.age       = Date.now() - tile.createdAt                          *)
(*   sinceLastTile  = Date.now() - lastTileTimeRef.current                 *)
(*   timers         = time left until each pending setTimeout fires        *)
(* and a difference is stored up to Horizon, beyond which every comparison *)
(* the code makes with it has the same outcome.                            *)
(* Interval and timeout callbacks are punctual; the player acts on the     *)
(* first InputFrames frames of every window of InputEvery frames, or at    *)
(* any time while the game loop is stopped; a run is followed for          *)
(* MaxRunTicks interval callbacks. The interval may fire once more after   *)
(* the loop condition has turned false, before the effect clears it.       *)
(* SpecStreak starts from runs with a streak of hits, SpecStore adds a     *)
(* throwing localStorage, SpecLive adds the fairness of the callbacks,      *)
(* SpecClick is the board's column click on boards of a few tiles,         *)
(* SpecAudio the initialisation of the audio engine.                       *)
(* last and pre are history variables: the operation that produced the     *)
(* state, and the state it ran in.                                         *)
(***************************************************************************)
EXTENDS Integers, Sequences, FiniteSets, TLC

\* ---------------------------------------------------------------- bounds
\* number of tile ids generateTile may hand out in one behaviour
MaxTiles == 5
\* window.innerHeight, in pixels
InnerHeight == 24
\* how long a pause may last, in milliseconds (or no time at all)
LongPause == 1504
\* length of an input window, in frames
InputEvery == 48
\* frames of an input window on which the player can act
InputFrames == 3
\* interval callbacks one run is followed for
MaxRunTicks == 80
\* longest hit streak the streak specification starts from
MaxStreak == 140
\* tiles on the board of the column-click specification
ClickTiles == 2
\* calls of initializeEngine in one behaviour
MaxCalls == 5

\* ------------------------------------------------------ program constants
SpeedScale == 50
PosScale == 125
InitialLives == 3
InitialInterval == 1500
MinInterval == 800
IntervalStep == 5
TickMs == 16
BaseSpeed == 200
OffscreenMargin == 100
HitRemoveDelay == 300
GameOverDelay == 500
BlackScore == 100
WhiteScore == 50
ComboBonus == 25
ComboBonusEvery == 10
MaxSpeed == 3
NoSuchId == 0 - 1
NoItem == 0 - 1
Horizon == InitialInterval + 1

VARIABLES
  gameState,        \* the React state of useGameState
  sinceLastTile,    \* Date.now() - lastTileTimeRef.current
  tileIntervalRef,  \* tileIntervalRef.current
  statsRef,         \* statsRef.current (totalTiles, hitTiles, missedTiles)
  timers,           \* time left of the pending setTimeout(endGame, 500) calls
  highScoreItem,    \* localStorage 'pianoTilesHighScore' (NoItem when absent)
  nextId,           \* number of ids generateTile has handed out
  frame,            \* interval callbacks since the input window opened
  runTicks,         \* interval callbacks since startGame
  writes,           \* localStorage.setItem calls since startGame
  last,             \* the operation that produced this state
  pre,              \* the state that operation ran in
  audio             \* the refs of useAudioEngine and its running calls

vars == <<gameState, sinceLastTile, tileIntervalRef, statsRef, timers,
          highScoreItem, nextId, frame, runTicks, writes, last, pre, audio>>

Max(a, b) == IF a >= b THEN a ELSE b
Min(a, b) == IF a <= b THEN a ELSE b

\* ------------------------------------------------------------ state shape
INITIAL_STATE ==
  [isPlaying |-> FALSE, score |-> 0, combo |-> 0, maxCombo |-> 0,
   tiles |-> <<>>, gameSpeed |-> 1 * SpeedScale, lives |-> InitialLives,
   isGameOver |-> FALSE, isPaused |-> FALSE]

ZeroStats == [totalTiles |-> 0, hitTiles |-> 0, missedTiles |-> 0]

\* generateTile: a fresh id, position 0, black with probability 0.7
generateTile(id, black) ==
  [id |-> id, position |-> 0, isBlack |-> black, isHit |-> FALSE,
   isMissed |-> FALSE, age |-> 0]

\* a time difference d milliseconds later
Later(diff, d) == Min(diff + d, Horizon)

\* the registry d milliseconds later
AgeTiles(tiles, d) ==
  [i \in DOMAIN tiles |-> [tiles[i] EXCEPT !.age = Later(@, d)]]

\* the pending timeouts d milliseconds later
RunTimers(ts, d) == [i \in DOMAIN ts |-> ts[i] - d]

\* no pending timeout is due earlier than d milliseconds from now
CanPass(ts, d) == ts # <<>> => d <= Head(ts)

\* ---------------------------------------------------------------- hitTile
\* prev.tiles.find(tile => tile.id === tileId)
FindTile(tiles, tileId) ==
  IF \E i \in DOMAIN tiles : tiles[i].id = tileId
  THEN LET i == CHOOSE j \in DOMAIN tiles :
                  /\ tiles[j].id = tileId
                  /\ \A k \in DOMAIN tiles : tiles[k].id = tileId => j <= k
       IN <<tiles[i]>>
  ELSE <<>>

\* variant of HitApplies: the early return forgets the isHit test
HitApplies_IgnoresIsHit(prev, tileId) ==
  LET f == FindTile(prev.tiles, tileId)
  IN f # <<>> /\ ~f[1].isMissed

\* the early return of hitTile is not taken
HitApplies(prev, tileId) ==
  LET f == FindTile(prev.tiles, tileId)
  IN f # <<>> /\ ~f[1].isHit /\ ~f[1].isMissed

\* Math.min(3, 1 + newCombo / 50), scaled by SpeedScale
SpeedForCombo(newCombo) == Min(MaxSpeed * SpeedScale, 1 * SpeedScale + newCombo)

\* variant of ScoreDelta: the bonus is taken from the combo before the hit
ScoreDelta_BonusFromOldCombo(black, newCombo) ==
  (IF black THEN BlackScore ELSE WhiteScore)
    + ((newCombo - 1) \div ComboBonusEvery) * ComboBonus

\* scoreIncrease + comboBonus
ScoreDelta(black, newCombo) ==
  (IF black THEN BlackScore ELSE WhiteScore)
    + (newCombo \div ComboBonusEvery) * ComboBonus

\* variant of HitTileState: maxCombo is set to the new combo
HitTileState_MaxIsCombo(prev, tileId) ==
  IF ~HitApplies(prev, tileId) THEN prev
  ELSE LET hit == FindTile(prev.tiles, tileId)[1]
           newCombo == prev.combo + 1
       IN [prev EXCEPT
             !.tiles = [i \in DOMAIN prev.tiles |->
                          IF prev.tiles[i].id = tileId
                          THEN [prev.tiles[i] EXCEPT !.isHit = TRUE]
                          ELSE prev.tiles[i]],
             !.score = prev.score + ScoreDelta(hit.isBlack, newCombo),
             !.combo = newCombo,
             !.maxCombo = newCombo,
             !.gameSpeed = SpeedForCombo(newCombo)]

\* the state updater of hitTile
HitTileState(prev, tileId) ==
  IF ~HitApplies(prev, tileId) THEN prev
  ELSE LET hit == FindTile(prev.tiles, tileId)[1]
           newCombo == prev.combo + 1
       IN [prev EXCEPT
             !.tiles = [i \in DOMAIN prev.tiles |->
                          IF prev.tiles[i].id = tileId
                          THEN [prev.tiles[i] EXCEPT !.isHit = TRUE]
                          ELSE prev.tiles[i]],
             !.score = prev.score + ScoreDelta(hit.isBlack, newCombo),
             !.combo = newCombo,
             !.maxCombo = Max(prev.maxCombo, newCombo),
             !.gameSpeed = SpeedForCombo(newCombo)]

\* statsRef.current.hitTiles++ happens only past the early return
HitTileStats(prev, stats, tileId) ==
  IF HitApplies(prev, tileId)
  THEN [stats EXCEPT !.hitTiles = @ + 1]
  ELSE stats

\* --------------------------------------------------------------- missTile
\* variant of MissTileState: a miss keeps the combo
MissTileState_KeepsCombo(prev, tileId) ==
  LET updatedTiles == [i \in DOMAIN prev.tiles |->
                         IF prev.tiles[i].id = tileId
                         THEN [prev.tiles[i] EXCEPT !.isMissed = TRUE]
                         ELSE prev.tiles[i]]
      newLives == prev.lives - 1
  IN IF newLives <= 0
     THEN [prev EXCEPT !.tiles = updatedTiles, !.lives = 0]
     ELSE [prev EXCEPT !.tiles = updatedTiles, !.lives = newLives]

\* variant of MissTileState: lives is not clamped at 0
MissTileState_Unclamped(prev, tileId) ==
  LET updatedTiles == [i \in DOMAIN prev.tiles |->
                         IF prev.tiles[i].id = tileId
                         THEN [prev.tiles[i] EXCEPT !.isMissed = TRUE]
                         ELSE prev.tiles[i]]
  IN [prev EXCEPT !.tiles = updatedTiles, !.combo = 0, !.lives = prev.lives - 1]

\* the state updater of missTile
MissTileState(prev, tileId) ==
  LET updatedTiles == [i \in DOMAIN prev.tiles |->
                         IF prev.tiles[i].id = tileId
                         THEN [prev.tiles[i] EXCEPT !.isMissed = TRUE]
                         ELSE prev.tiles[i]]
      newLives == prev.lives - 1
  IN IF newLives <= 0
     THEN [prev EXCEPT !.tiles = updatedTiles, !.combo = 0, !.lives = 0]
     ELSE [prev EXCEPT !.tiles = updatedTiles, !.combo = 0, !.lives = newLives]

\* variant of MissSchedulesEnd: no endGame is scheduled
MissSchedulesEnd_Never(prev) == FALSE

\* missTile calls setTimeout(endGame, 500) when no life is left
MissSchedulesEnd(prev) == prev.lives - 1 <= 0

\* the missTile updaters queued by one tick, run in order after the tick's
\* own updater; w is [gs, stats, timers]
RECURSIVE ApplyMisses(_, _)
ApplyMisses(w, ids) ==
  IF ids = <<>> THEN w
  ELSE ApplyMisses(
         [gs |-> MissTileState(w.gs, Head(ids)),
          stats |-> [w.stats EXCEPT !.missedTiles = @ + 1],
          timers |-> IF MissSchedulesEnd(w.gs)
                     THEN Append(w.timers, GameOverDelay)
                     ELSE w.timers],
         Tail(ids))

\* variant of Movement: tiles move at the base speed whatever gameSpeed is
Movement_IgnoresSpeed(speed) ==
  (BaseSpeed * SpeedScale * TickMs * PosScale) \div (SpeedScale * 1000)

\* ---------------------------------------------------- updateTilePositions
\* (moveSpeed * deltaTime) / 1000, scaled by PosScale
Movement(speed) == (BaseSpeed * speed * TickMs * PosScale) \div (SpeedScale * 1000)

\* variant of MoveTiles: the moved tile is built without its isHit flag
MoveTiles_DropsOutcome(tiles, speed) ==
  [i \in DOMAIN tiles |->
     [tiles[i] EXCEPT !.position = @ + Movement(speed),
                      !.age = Later(@, TickMs),
                      !.isHit = FALSE]]

\* the registry as the interval callback sees it: TickMs later, moved
MoveTiles(tiles, speed) ==
  [i \in DOMAIN tiles |->
     [tiles[i] EXCEPT !.position = @ + Movement(speed),
                      !.age = Later(@, TickMs)]]

\* tile.position > window.innerHeight + 100
OffScreen(tile) == tile.position > (InnerHeight + OffscreenMargin) * PosScale

\* tile.isHit && Date.now() - tile.createdAt > 300
HitExpired(tile) == tile.isHit /\ tile.age > HitRemoveDelay

\* variant of Removed: tiles past the boundary stay in the registry
Removed_OnlyHitExpired(tile) == HitExpired(tile)

\* the tile is pushed to tilesToRemove
Removed(tile) == OffScreen(tile) \/ HitExpired(tile)

\* variant of IsMiss: decoy tiles are passed to missTile too
IsMiss_AnyColour(tile) == OffScreen(tile) /\ ~tile.isHit /\ ~tile.isMissed

\* the tile is passed to missTile
IsMiss(tile) == OffScreen(tile) /\ ~tile.isHit /\ ~tile.isMissed /\ tile.isBlack

RECURSIVE IdsOf(_)
IdsOf(tiles) ==
  IF tiles = <<>> THEN <<>> ELSE <<Head(tiles).id>> \o IdsOf(Tail(tiles))

\* ids handed to missTile by a tick over prev, in registry order
MissedIds(prev) ==
  IdsOf(SelectSeq(MoveTiles(prev.tiles, prev.gameSpeed), IsMiss))

\* variant of SpawnDue: a tile is spawned whenever the updater runs
SpawnDue_EveryTick(since, interval, speed) == TRUE

\* variant of SpawnDue: the interval is not divided by the speed
SpawnDue_IgnoresSpeed(since, interval, speed) == since > interval

\* now - lastTileTimeRef.current > tileIntervalRef.current / prev.gameSpeed
SpawnDue(since, interval, speed) == since * speed > interval * SpeedScale

\* variant of NextInterval: the interval has no floor
NextInterval_NoFloor(interval) == interval - IntervalStep

\* Math.max(800, tileIntervalRef.current - 5)
NextInterval(interval) == Max(MinInterval, interval - IntervalStep)

\* the tiles returned by the tick's own updater
TickTiles(prev, spawn, newTile) ==
  LET moved == MoveTiles(prev.tiles, prev.gameSpeed)
      kept == SelectSeq(moved, LAMBDA tile : ~Removed(tile))
  IN IF spawn THEN Append(kept, newTile) ELSE kept

\* variant of TickRuns: the early return forgets isPaused
TickRuns_IgnoresPause(prev) == prev.isPlaying

\* the tick's updater does not return prev at once
TickRuns(prev) == ~(~prev.isPlaying \/ prev.isPaused)

\* the interval of the game loop is installed
LoopActive(g) == g.isPlaying /\ ~g.isGameOver /\ ~g.isPaused

\* ---------------------------------------------------------------- endGame
\* parseInt(localStorage.getItem('pianoTilesHighScore') || '0')
ParseHighScore(item) == IF item = NoItem THEN 0 ELSE item

\* endGame writes the score
EndGameWrites(prev, item) == prev.score > ParseHighScore(item)

EndGameState(prev) == [prev EXCEPT !.isPlaying = FALSE, !.isGameOver = TRUE]

\* -------------------------------------------------------- getCurrentStats
\* accuracy as the fraction <<numerator, denominator>>
Accuracy(stats) ==
  IF stats.totalTiles > 0
  THEN <<stats.hitTiles * 100, stats.totalTiles>>
  ELSE <<0, 1>>

getCurrentStats ==
  [totalTiles |-> statsRef.totalTiles, hitTiles |-> statsRef.hitTiles,
   missedTiles |-> statsRef.missedTiles, accuracy |-> Accuracy(statsRef),
   finalScore |-> gameState.score, maxCombo |-> gameState.maxCombo]

\* ---------------------------------------------------------- game-over screen
\* parseInt(localStorage.getItem('pianoTilesHighScore') || '0'), read while
\* the game component renders
getHighScore == ParseHighScore(highScoreItem)

\* currentStats.finalScore > highScore, as passed to the game-over screen
isNewHighScore == getCurrentStats.finalScore > getHighScore

\* ----------------------------------------------------------- useAudioEngine
NoContext == 0

\* the refs after the first render: audioContextRef null, isInitializedRef
\* false; created counts the AudioContext objects constructed, awaiting holds
\* the calls of initializeEngine suspended at await addModule, each named by
\* the context it created, gains the contexts that were given a gain node,
\* assigned counts the assignments isInitializedRef.current = true, closed
\* holds the contexts closed by the effect's cleanup
AudioInit ==
  [isInitialized |-> FALSE, audioContextRef |-> NoContext, created |-> 0,
   awaiting |-> {}, gains |-> {}, assigned |-> 0, closed |-> {},
   mounted |-> TRUE, calls |-> 0]

\* ------------------------------------------------------------------ Init
\* the state an operation runs in
Snapshot ==
  [gameState |-> gameState, statsRef |-> statsRef,
   tileIntervalRef |-> tileIntervalRef, sinceLastTile |-> sinceLastTile,
   timers |-> timers, highScoreItem |-> highScoreItem]

\* pre where the operation's effect does not depend on the state it ran in
NoPre ==
  [gameState |-> INITIAL_STATE, statsRef |-> ZeroStats,
   tileIntervalRef |-> InitialInterval, sinceLastTile |-> Horizon,
   timers |-> <<>>, highScoreItem |-> NoItem]

Init ==
  /\ gameState = INITIAL_STATE
  /\ sinceLastTile = Horizon
  /\ tileIntervalRef = InitialInterval
  /\ statsRef = ZeroStats
  /\ timers = <<>>
  /\ highScoreItem = NoItem
  /\ nextId = 0
  /\ frame = 0
  /\ runTicks = 0
  /\ writes = 0
  /\ last = [op |-> "init", target |-> "none"]
  /\ pre = NoPre
  /\ audio = AudioInit

\* --------------------------------------------------------------- actions
\* the player can act now
InputOpen == frame < InputFrames \/ ~LoopActive(gameState)

\* startGame, from the menu or the game-over screen
startGame ==
  /\ InputOpen
  /\ ~gameState.isPlaying
  /\ nextId < MaxTiles
  /\ \E black \in BOOLEAN :
       gameState' = [INITIAL_STATE EXCEPT
                       !.isPlaying = TRUE,
                       !.tiles = <<generateTile(nextId, black)>>]
  /\ nextId' = nextId + 1
  /\ sinceLastTile' = 0
  /\ statsRef' = ZeroStats
  /\ frame' = 0
  /\ runTicks' = 0
  /\ writes' = 0
  /\ last' = [op |-> "startGame", target |-> "none"]
  /\ pre' = [NoPre EXCEPT !.tileIntervalRef = tileIntervalRef]
  /\ UNCHANGED <<audio, tileIntervalRef, timers, highScoreItem>>

\* pauseGame; a pause that ends has lasted away milliseconds
pauseGame ==
  /\ InputOpen
  /\ gameState.isPlaying
  /\ \E away \in {0, LongPause} :
       /\ ~gameState.isPaused => away = 0
       /\ CanPass(timers, away)
       /\ gameState' = [gameState EXCEPT !.isPaused = ~@,
                                         !.tiles = AgeTiles(@, away)]
       /\ sinceLastTile' = Later(sinceLastTile, away)
       /\ timers' = RunTimers(timers, away)
  /\ last' = [op |-> "pauseGame", target |-> "none"]
  /\ pre' = Snapshot
  /\ UNCHANGED <<audio, tileIntervalRef, statsRef, highScoreItem, nextId, frame,
                 runTicks, writes>>

\* what hitTile finds under the id it is given
TargetOf(prev, tileId) ==
  LET f == FindTile(prev.tiles, tileId)
  IN IF f = <<>> THEN "absent"
     ELSE IF f[1].isHit THEN "hit"
     ELSE IF f[1].isMissed THEN "missed"
     ELSE IF f[1].isBlack THEN "black"
     ELSE "white"

hitTile ==
  /\ InputOpen
  /\ \E tileId \in (0 .. nextId - 1) \cup {NoSuchId} :
       /\ gameState' = HitTileState(gameState, tileId)
       /\ statsRef' = HitTileStats(gameState, statsRef, tileId)
       /\ last' = [op |-> "hitTile", target |-> TargetOf(gameState, tileId)]
  /\ pre' = Snapshot
  /\ UNCHANGED <<audio, sinceLastTile, tileIntervalRef, timers, highScoreItem,
                 nextId, frame, runTicks, writes>>

\* the interval of the game loop is installed: the loop condition holds, or
\* it held until the last operation and the effect has not yet cleared it
IntervalInstalled ==
  LoopActive(gameState) \/ last.op \in {"pauseGame", "endGame"}

\* one firing of the 16 ms interval
updateTilePositions ==
  \E black \in BOOLEAN :
    LET runs == TickRuns(gameState)
        since == Later(sinceLastTile, TickMs)
        spawn == SpawnDue(since, tileIntervalRef, gameState.gameSpeed)
        ticked == [gameState EXCEPT
                     !.tiles = TickTiles(gameState, spawn,
                                         generateTile(nextId, black))]
        w == ApplyMisses(
               [gs |-> ticked,
                stats |-> IF spawn THEN [statsRef EXCEPT !.totalTiles = @ + 1]
                          ELSE statsRef,
                timers |-> RunTimers(timers, TickMs)],
               MissedIds(gameState))
    IN /\ IntervalInstalled
       /\ runs => CanPass(timers, TickMs)
       /\ runs => runTicks < MaxRunTicks
       /\ (runs /\ spawn) => nextId < MaxTiles
       /\ (~runs \/ ~spawn) => black
       /\ gameState' = IF runs THEN w.gs ELSE gameState
       /\ statsRef' = IF runs THEN w.stats ELSE statsRef
       /\ timers' = IF runs THEN w.timers ELSE timers
       /\ sinceLastTile' = IF ~runs THEN sinceLastTile
                            ELSE IF spawn THEN 0 ELSE since
       /\ tileIntervalRef' = IF runs /\ spawn
                             THEN NextInterval(tileIntervalRef)
                             ELSE tileIntervalRef
       /\ nextId' = IF runs /\ spawn THEN nextId + 1 ELSE nextId
       /\ frame' = IF runs THEN (frame + 1) % InputEvery ELSE frame
       /\ runTicks' = IF runs THEN runTicks + 1 ELSE runTicks
       /\ last' = [op |-> "tick", target |-> "none"]
       /\ pre' = Snapshot
       /\ UNCHANGED <<audio, highScoreItem, writes>>

\* the oldest pending setTimeout(endGame, 500) fires
endGame ==
  /\ timers # <<>>
  /\ Head(timers) < TickMs \/ ~LoopActive(gameState)
  /\ LET d == Head(timers)
     IN /\ timers' = RunTimers(Tail(timers), d)
        /\ gameState' = [EndGameState(gameState) EXCEPT
                           !.tiles = AgeTiles(@, d)]
        /\ sinceLastTile' = Later(sinceLastTile, d)
  /\ highScoreItem' = IF EndGameWrites(gameState, highScoreItem)
                      THEN gameState.score ELSE highScoreItem
  /\ writes' = IF EndGameWrites(gameState, highScoreItem)
               THEN writes + 1 ELSE writes
  /\ frame' = 0
  /\ last' = [op |-> "endGame", target |-> "none"]
  /\ pre' = Snapshot
  /\ UNCHANGED <<audio, tileIntervalRef, statsRef, nextId, runTicks>>

\* resetGame, from the game-over screen
resetGame ==
  /\ InputOpen
  /\ ~gameState.isPlaying
  /\ gameState' = INITIAL_STATE
  /\ tileIntervalRef' = InitialInterval
  /\ sinceLastTile' = Horizon
  /\ statsRef' = ZeroStats
  /\ frame' = 0
  /\ last' = [op |-> "resetGame", target |-> "none"]
  /\ pre' = NoPre
  /\ UNCHANGED <<audio, timers, highScoreItem, nextId, runTicks, writes>>

Next ==
  \/ startGame
  \/ pauseGame
  \/ hitTile
  \/ updateTilePositions
  \/ endGame
  \/ resetGame

Spec == Init /\ [][Next]_vars

\* ------------------------------------------------- streak specification
\* score after k hits in a row on black tiles, from the start of a run: the
\* sum over j = 1 .. k of BlackScore + floor(j / ComboBonusEvery) * ComboBonus
StreakScore(k) ==
  LET q == k \div ComboBonusEvery
      r == k % ComboBonusEvery
  IN k * BlackScore
       + ComboBonus * (ComboBonusEvery * ((q * (q - 1)) \div 2) + q * (r + 1))

\* tileIntervalRef.current after k spawns
StreakInterval(k) == Max(MinInterval, InitialInterval - IntervalStep * k)

\* A run in which the player has hit each of the first k tiles (all black) as
\* it appeared, at the tick that spawns the next tile; k = 0 is the state
\* startGame leaves.
InitStreak ==
  \E k \in 0 .. MaxStreak, black \in BOOLEAN :
    /\ gameState = [INITIAL_STATE EXCEPT
                      !.isPlaying = TRUE,
                      !.score = StreakScore(k),
                      !.combo = k,
                      !.maxCombo = k,
                      !.gameSpeed = IF k = 0 THEN @ ELSE SpeedForCombo(k),
                      !.tiles = <<generateTile(0, black)>>]
    /\ sinceLastTile = 0
    /\ tileIntervalRef = StreakInterval(k)
    /\ statsRef = [totalTiles |-> k, hitTiles |-> k, missedTiles |-> 0]
    /\ timers = <<>>
    /\ highScoreItem = NoItem
    /\ nextId = 1
    /\ frame = 0
    /\ runTicks = 0
    /\ writes = 0
    /\ last = [op |-> "init", target |-> "none"]
    /\ pre = NoPre
    /\ audio = AudioInit

NextStreak ==
  \/ hitTile
  \/ updateTilePositions
  \/ endGame

SpecStreak == InitStreak /\ [][NextStreak]_vars

\* Time goes on: the interval fires while it is installed, and a timeout
\* fires however often the player pauses and resumes in the meantime
SpecLive ==
  /\ Init
  /\ [][Next]_vars
  /\ WF_vars(updateTilePositions)
  /\ SF_vars(endGame)

\* ------------------------------------ specification with a failing store
\* the game component is mounted: no updater has thrown
Mounted == last.target # "threw"

\* endGame when localStorage.setItem throws (quota, storage disabled): the
\* updater throws while React renders, the error boundary around the game
\* takes the component down and the state update is lost
endGameThrows ==
  /\ timers # <<>>
  /\ Head(timers) < TickMs \/ ~LoopActive(gameState)
  /\ EndGameWrites(gameState, highScoreItem)
  /\ timers' = <<>>
  /\ last' = [op |-> "endGame", target |-> "threw"]
  /\ pre' = Snapshot
  /\ UNCHANGED <<audio, gameState, sinceLastTile, tileIntervalRef, statsRef,
                 highScoreItem, nextId, frame, runTicks, writes>>

NextStore ==
  \/ Mounted /\ hitTile
  \/ Mounted /\ updateTilePositions
  \/ Mounted /\ endGame
  \/ Mounted /\ endGameThrows

SpecStore == InitStreak /\ [][NextStore]_vars

\* --------------------------------------- specification of the column click
\* GameBoard: const COLUMNS = 4
COLUMNS == 4

\* variant of InHitZone: the bottom tile is hit wherever it is
InHitZone_AnyPosition(tile) == TRUE

\* tile.position > window.innerHeight * 0.6
InHitZone(tile) == tile.position * 5 > InnerHeight * 3 * PosScale

\* tiles.filter(column, isBlack, !isHit, !isMissed)
\*      .sort((a, b) => b.position - a.position)[0], as <<tile>> or <<>>
BottomTile(tiles, column) ==
  LET cand == {i \in DOMAIN tiles :
                 /\ tiles[i].column = column /\ tiles[i].isBlack
                 /\ ~tiles[i].isHit /\ ~tiles[i].isMissed}
  IN IF cand = {} THEN <<>>
     ELSE LET i == CHOOSE j \in cand :
                     \A k \in cand :
                       \/ tiles[k].position < tiles[j].position
                       \/ tiles[k].position = tiles[j].position /\ j <= k
          IN <<tiles[i]>>

\* the ids handleColumnClick passes to onTileClick, as <<id>> or <<>>
Forwarded(tiles, isPlaying, column) ==
  LET b == BottomTile(tiles, column)
  IN IF ~isPlaying THEN <<>>
     ELSE IF b = <<>> THEN <<>>
     ELSE IF InHitZone(b[1]) THEN <<b[1].id>>
     ELSE <<>>

\* positions of the tiles of the board, above and inside the bottom section
ClickPositions == {1792, 1808, 2400}

\* a board of ClickTiles tiles, the oldest first and furthest down, in a run
\* or after it
InitClick ==
  \E isPlaying \in BOOLEAN :
  \E tiles \in [1 .. ClickTiles ->
                   [id : 0 .. ClickTiles - 1, position : ClickPositions,
                    isBlack : BOOLEAN, isHit : BOOLEAN, isMissed : {FALSE},
                    age : {0}, column : 0 .. COLUMNS - 1]] :
    /\ \A i \in 1 .. ClickTiles : tiles[i].id = i - 1
    /\ \A i, j \in 1 .. ClickTiles :
         i < j => tiles[i].position > tiles[j].position
    /\ gameState = [INITIAL_STATE EXCEPT
                      !.isPlaying = isPlaying,
                      !.isGameOver = ~isPlaying,
                      !.tiles = tiles]
    /\ sinceLastTile = 0
    /\ tileIntervalRef = InitialInterval
    /\ statsRef = [ZeroStats EXCEPT !.totalTiles = ClickTiles - 1]
    /\ timers = <<>>
    /\ highScoreItem = NoItem
    /\ nextId = ClickTiles
    /\ frame = 0
    /\ runTicks = 0
    /\ writes = 0
    /\ last = [op |-> "init", target |-> "none", column |-> 0]
    /\ pre = NoPre
    /\ audio = AudioInit

\* a click or touch on a column of the board; onTileClick is handleTileClick,
\* which calls hitTile
handleColumnClick ==
  \E column \in 0 .. COLUMNS - 1 :
    LET f == Forwarded(gameState.tiles, gameState.isPlaying, column)
    IN /\ gameState' = IF f = <<>> THEN gameState
                       ELSE HitTileState(gameState, f[1])
       /\ statsRef' = IF f = <<>> THEN statsRef
                      ELSE HitTileStats(gameState, statsRef, f[1])
       /\ last' = [op |-> "columnClick",
                   target |-> IF f = <<>> THEN "none"
                              ELSE TargetOf(gameState, f[1]),
                   column |-> column]
       /\ pre' = Snapshot
       /\ UNCHANGED <<audio, sinceLastTile, tileIntervalRef, timers, highScoreItem,
                      nextId, frame, runTicks, writes>>

NextClick == handleColumnClick

SpecClick == InitClick /\ [][NextClick]_vars

\* ------------------------------------ specification of the audio engine
\* the variables of the game, which the audio engine does not touch
gameVars ==
  <<gameState, sinceLastTile, tileIntervalRef, statsRef, timers,
    highScoreItem, nextId, frame, runTicks, writes, last, pre>>

\* initializeEngine up to its await: called by the hook's effect, by the
\* component's effect (on every render, its dependency is a fresh object) and
\* by loadSoundFont; new AudioContext() may throw
initializeEngine ==
  /\ audio.mounted
  /\ audio.calls < MaxCalls
  /\ \E throws \in BOOLEAN :
       audio' =
         IF audio.isInitialized \/ throws
         THEN [audio EXCEPT !.calls = @ + 1]
         ELSE [audio EXCEPT !.calls = @ + 1,
                            !.created = @ + 1,
                            !.audioContextRef = audio.created + 1,
                            !.awaiting = @ \cup {audio.created + 1}]
  /\ UNCHANGED gameVars

\* a suspended call goes on after addModule has settled, resolved or rejected
initializeEngineResumes ==
  /\ \E c \in audio.awaiting :
       audio' = [audio EXCEPT !.awaiting = @ \ {c},
                              !.gains = @ \cup {audio.audioContextRef},
                              !.isInitialized = TRUE,
                              !.assigned = @ + 1]
  /\ UNCHANGED gameVars

\* the cleanup of the hook's effect at unmount
closeAudioContext ==
  /\ audio.mounted
  /\ audio' = [audio EXCEPT
                 !.mounted = FALSE,
                 !.closed = IF audio.audioContextRef = NoContext THEN @
                            ELSE @ \cup {audio.audioContextRef}]
  /\ UNCHANGED gameVars

NextAudio ==
  \/ initializeEngine
  \/ initializeEngineResumes
  \/ closeAudioContext

SpecAudio == Init /\ [][NextAudio]_vars

\* ======================================================== claims C1 - C10
Running(g) == g.isPlaying /\ ~g.isGameOver /\ ~g.isPaused
Paused(g) == g.isPlaying /\ ~g.isGameOver /\ g.isPaused
Over(g) == g.isGameOver /\ ~g.isPlaying

HitPending == last.op = "hitTile" /\ last.target \in {"black", "white"}
HitIgnored == last.op = "hitTile" /\ last.target \in {"absent", "hit", "missed"}

\* the run counters and statistics a hit or a miss can change
Ledger(g, st) ==
  <<g.score, g.combo, g.maxCombo, g.gameSpeed, g.lives,
    st.totalTiles, st.hitTiles, st.missedTiles>>



\* C1: while the run is Paused, hitTile on a Pending tile of the registry
\* leaves score, combo, maxCombo, gameSpeed, the hit counter and the tile's
\* outcome unchanged.
C1_PausedHitHasNoEffect ==
  (HitPending /\ Paused(pre.gameState)) =>
     /\ gameState.score = pre.gameState.score
     /\ gameState.combo = pre.gameState.combo
     /\ gameState.maxCombo = pre.gameState.maxCombo
     /\ gameState.gameSpeed = pre.gameState.gameSpeed
     /\ statsRef.hitTiles = pre.statsRef.hitTiles
     /\ gameState.tiles = pre.gameState.tiles

\* C2: hitTile on an id that is not in the registry, or whose tile is already
\* Hit or Missed, changes neither the run state nor the statistics; a tile
\* that is Hit stays Hit while it is in the registry, so a second hitTile on
\* its id is such a call, and the hits counted in a run never exceed the
\* tiles the run has created.
C2_ResolvedHitIsNoOp ==
  /\ HitIgnored =>
       /\ gameState = pre.gameState
       /\ statsRef = pre.statsRef
       /\ tileIntervalRef = pre.tileIntervalRef
       /\ sinceLastTile = pre.sinceLastTile
       /\ timers = pre.timers
       /\ highScoreItem = pre.highScoreItem
  /\ \A i \in DOMAIN pre.gameState.tiles, j \in DOMAIN gameState.tiles :
       (pre.gameState.tiles[i].id = gameState.tiles[j].id
          /\ pre.gameState.tiles[i].isHit) => gameState.tiles[j].isHit
  /\ statsRef.hitTiles <= statsRef.totalTiles + 1

\* a second hitTile on the id of a tile that is already Hit has been ignored
C2_Witness ==
  /\ last.op = "hitTile" /\ last.target = "hit"
  /\ statsRef.hitTiles = 1
  /\ gameState.score > 0

\* the one tile a hit marks: tiles equals old with one Pending tile set Hit
MarksOneHit(old, tiles) ==
  \E i \in DOMAIN old :
    /\ ~old[i].isHit /\ ~old[i].isMissed
    /\ tiles = [old EXCEPT ![i].isHit = TRUE]

\* C3: a hitTile on a Pending tile gives combo' = combo + 1,
\* score' = score + (100 if Active else 50) + floor(combo'/10)*25,
\* maxCombo' = max(maxCombo, combo'), gameSpeed' = min(3, 1 + combo'/50),
\* marks exactly that tile Hit and adds exactly 1 to the hit counter; from
\* combo 19 an Active hit gives combo 20 and a score delta of 150.
C3_HitArithmetic ==
  HitPending =>
     LET old == pre.gameState
         base == IF last.target = "black" THEN 100 ELSE 50
     IN /\ gameState.combo = old.combo + 1
        /\ gameState.score = old.score + base + (gameState.combo \div 10) * 25
        /\ gameState.maxCombo =
             (IF old.maxCombo >= gameState.combo THEN old.maxCombo
              ELSE gameState.combo)
        /\ gameState.gameSpeed * 50 =
             (IF 50 + gameState.combo <= 150 THEN 50 + gameState.combo ELSE 150)
               * SpeedScale
        /\ MarksOneHit(old.tiles, gameState.tiles)
        /\ statsRef.hitTiles = pre.statsRef.hitTiles + 1
        /\ gameState.lives = old.lives
        /\ (old.combo = 19 /\ last.target = "black") =>
             gameState.combo = 20 /\ gameState.score - old.score = 150

\* an Active tile has been hit at combo 19
C3_Witness ==
  /\ HitPending /\ last.target = "black"
  /\ pre.gameState.combo = 19
  /\ gameState.combo = 20

\* Pending Active tiles of registry g.tiles that the next tick carries across
\* the far boundary: position + 200 * gameSpeed * 16 / 1000 > innerHeight + 100
Crossers(g) ==
  {i \in DOMAIN g.tiles :
     /\ g.tiles[i].isBlack /\ ~g.tiles[i].isHit /\ ~g.tiles[i].isMissed
     /\ (g.tiles[i].position * 1000 * SpeedScale
           + 200 * g.gameSpeed * 16 * PosScale)
          > (InnerHeight + 100) * PosScale * 1000 * SpeedScale}

MissTick ==
  /\ last.op = "tick"
  /\ Running(pre.gameState)
  /\ Crossers(pre.gameState) # {}

\* C4: a Pending Active tile crossing the far boundary while lives >= 1 sets
\* combo to 0 whatever the streak was, takes exactly one life and adds exactly
\* one to totalMissed, and leaves score and maxCombo unchanged; a run whose
\* first event is one Active tile leaving unresolved has lives 2 and combo 0.
C4_MissArithmetic ==
  (MissTick /\ pre.gameState.lives >= 1) =>
     LET old == pre.gameState
         n == Cardinality(Crossers(old))
     IN /\ gameState.combo = 0
        /\ gameState.lives = (IF old.lives >= n THEN old.lives - n ELSE 0)
        /\ statsRef.missedTiles = pre.statsRef.missedTiles + n
        /\ gameState.score = old.score
        /\ gameState.maxCombo = old.maxCombo
        /\ (n = 1 /\ pre.statsRef.missedTiles = 0 /\ old.lives = 3) =>
             gameState.lives = 2 /\ gameState.combo = 0

\* one Active tile has left the field unresolved and ended a streak
C4_Witness ==
  /\ MissTick
  /\ Cardinality(Crossers(pre.gameState)) = 1
  /\ pre.gameState.combo > 0
  /\ pre.gameState.lives = 3
  /\ gameState.lives = 2 /\ gameState.combo = 0

\* C5: in every reachable state 0 <= lives <= 3, also when several Active
\* tiles cross the boundary in one tick and when Active tiles are missed
\* after lives has reached 0.
C5_LivesInRange == gameState.lives >= 0 /\ gameState.lives <= 3

\* an Active tile has been missed after lives had already reached 0
C5_Witness ==
  /\ MissTick
  /\ pre.gameState.lives = 0
  /\ gameState.lives = 0
  /\ statsRef.missedTiles > pre.statsRef.missedTiles

\* two Active tiles have crossed the boundary in the same tick
C5_SameTick ==
  /\ MissTick
  /\ Cardinality(Crossers(pre.gameState)) >= 2

\* C6: whenever lives is 0 the phase is Over within one tick: no tick moves,
\* expires or spawns tiles in a state whose lives are 0.
C6_NoTickAtZeroLives ==
  (last.op = "tick" /\ pre.gameState.lives = 0) =>
     /\ gameState.tiles = pre.gameState.tiles
     /\ statsRef = pre.statsRef
     /\ sinceLastTile = pre.sinceLastTile

\* C7: the reported accuracy lies in [0, 100] and equals
\* totalHit / totalSpawned * 100 (0 when totalSpawned is 0); in particular
\* totalHit never exceeds totalSpawned.
C7_AccuracyInRange ==
  LET acc == getCurrentStats.accuracy
  IN /\ acc[1] >= 0
     /\ acc[1] <= 100 * acc[2]
     /\ statsRef.totalTiles > 0 =>
          acc[1] * statsRef.totalTiles = statsRef.hitTiles * 100 * acc[2]
     /\ statsRef.totalTiles = 0 => acc[1] = 0
     /\ statsRef.hitTiles <= statsRef.totalTiles

\* C8: the best score is written at most once per run, only at the
\* transition into Over, and only when the run's score is strictly greater
\* than the stored best.
C8_BestWrittenOnce ==
  /\ writes <= 1
  /\ (last.op = "endGame" /\ highScoreItem # pre.highScoreItem) =>
       /\ ~pre.gameState.isGameOver
       /\ pre.gameState.isPlaying
       /\ pre.gameState.score > ParseHighScore(pre.highScoreItem)

\* C9: once the phase is Over, score, combo, maxCombo, lives and the run
\* statistics do not change under any tick or hitTile call.
C9_FrozenWhenOver ==
  (last.op \in {"hitTile", "tick"} /\ Over(pre.gameState)) =>
     /\ Ledger(gameState, statsRef) = Ledger(pre.gameState, pre.statsRef)
     /\ Accuracy(statsRef) = Accuracy(pre.statsRef)

\* C10: startGame yields a Running state with score, combo, maxCombo 0,
\* lives 3, gameSpeed 1, zeroed statistics, a registry of exactly one fresh
\* Pending tile at position 0, and the spawn interval at its initial 1500.
C10_StartIsFresh ==
  last.op = "startGame" =>
     /\ Running(gameState)
     /\ gameState.score = 0 /\ gameState.combo = 0 /\ gameState.maxCombo = 0
     /\ gameState.lives = 3
     /\ gameState.gameSpeed = 1 * SpeedScale
     /\ statsRef = ZeroStats
     /\ Len(gameState.tiles) = 1
     /\ gameState.tiles[1].position = 0
     /\ ~gameState.tiles[1].isHit /\ ~gameState.tiles[1].isMissed
     /\ sinceLastTile = 0
     /\ tileIntervalRef = 1500

\* ======================================================= claims C11 - C20
Idle(g) == ~g.isPlaying /\ ~g.isGameOver

\* C11: after resetGame the engine is Idle with the initial run state, zeroed
\* statistics and the initial spawn interval, and it stays Idle until the next
\* startGame: nothing scheduled before the reset changes the state afterwards.
C11_ResetStaysIdle ==
  /\ last.op = "resetGame" =>
       /\ gameState = INITIAL_STATE
       /\ statsRef = ZeroStats
       /\ tileIntervalRef = 1500
  /\ (Idle(pre.gameState) /\ last.op \notin {"init", "startGame"}) =>
       Idle(gameState)

\* C12: gameSpeed is purely combo-driven: a miss itself leaves gameSpeed as it
\* is, and once a tick has run after the miss gameSpeed equals
\* min(3, 1 + combo / 50) again (1 while combo stays 0).
C12_SpeedFollowsCombo ==
  /\ MissTick => gameState.gameSpeed = pre.gameState.gameSpeed
  /\ (last.op = "tick" /\ ~MissTick) =>
       gameState.gameSpeed * 50 =
         (IF 50 + gameState.combo <= 150 THEN 50 + gameState.combo ELSE 150)
           * SpeedScale

\* Pending decoy tiles of registry g.tiles that the next tick carries across
\* the far boundary
DecoyLeavers(g) ==
  {i \in DOMAIN g.tiles :
     /\ ~g.tiles[i].isBlack /\ ~g.tiles[i].isHit /\ ~g.tiles[i].isMissed
     /\ (g.tiles[i].position * 1000 * SpeedScale
           + 200 * g.gameSpeed * 16 * PosScale)
          > (InnerHeight + 100) * PosScale * 1000 * SpeedScale}

\* hit decoy tiles of registry g.tiles that are not in registry tiles
HitDecoysGone(g, tiles) ==
  {i \in DOMAIN g.tiles :
     /\ ~g.tiles[i].isBlack /\ g.tiles[i].isHit
     /\ \A j \in DOMAIN tiles : tiles[j].id # g.tiles[i].id}

\* C13: decoy tiles never change lives or the miss counter and never reset
\* combo: not when a Pending decoy leaves the field, not when a decoy is hit,
\* not when a hit decoy is removed.
C13_DecoysCostNothing ==
  /\ (last.op = "tick" /\ ~MissTick) =>
       /\ gameState.lives = pre.gameState.lives
       /\ statsRef.missedTiles = pre.statsRef.missedTiles
       /\ gameState.combo = pre.gameState.combo
  /\ (HitPending /\ last.target = "white") =>
       /\ gameState.lives = pre.gameState.lives
       /\ statsRef.missedTiles = pre.statsRef.missedTiles
       /\ gameState.combo = pre.gameState.combo + 1

\* a Pending decoy has left the field during a streak
C13_Witness ==
  /\ last.op = "tick" /\ ~MissTick
  /\ DecoyLeavers(pre.gameState) # {}
  /\ pre.gameState.combo > 0
  /\ gameState.combo = pre.gameState.combo

\* a hit decoy has been removed by a tick
C13_HitDecoyRemoved ==
  /\ last.op = "tick" /\ ~MissTick
  /\ HitDecoysGone(pre.gameState, gameState.tiles) # {}

\* C14: while Paused a tick is a no-op: tile positions, the registry, the
\* time of the last spawn, the spawn interval, the statistics, lives, combo
\* and score are unchanged; no tile is spawned, expired or missed.
C14_PausedTickIsNoOp ==
  (last.op = "tick" /\ Paused(pre.gameState)) =>
     /\ gameState = pre.gameState
     /\ statsRef = pre.statsRef
     /\ tileIntervalRef = pre.tileIntervalRef
     /\ sinceLastTile = pre.sinceLastTile
     /\ timers = pre.timers

\* the interval has fired on a paused run whose registry holds tiles
C14_Witness ==
  /\ last.op = "tick" /\ Paused(pre.gameState)
  /\ Len(pre.gameState.tiles) >= 2
  /\ \E i \in DOMAIN pre.gameState.tiles : pre.gameState.tiles[i].isHit

\* the last operation was a tick that spawned a tile
SpawnTick ==
  last.op = "tick" /\ statsRef.totalTiles = pre.statsRef.totalTiles + 1

\* C15: the spawn interval is never below its floor of 800; within a run it
\* never grows, each spawn lowers it by exactly 5 until the floor is reached,
\* whatever score and combo are, and nothing else changes it.
C15_IntervalFloor ==
  /\ tileIntervalRef >= 800
  /\ tileIntervalRef <= 1500
  /\ SpawnTick =>
       tileIntervalRef =
         (IF pre.tileIntervalRef - 5 >= 800 THEN pre.tileIntervalRef - 5
          ELSE 800)
  /\ (last.op \in {"tick", "hitTile", "pauseGame", "endGame", "startGame"}
        /\ ~SpawnTick) =>
       tileIntervalRef = pre.tileIntervalRef

\* a spawn at an interval less than one step above the floor stops at 800
C15_Witness ==
  /\ SpawnTick
  /\ pre.tileIntervalRef < 805
  /\ tileIntervalRef = 800
  /\ statsRef.totalTiles >= 140

\* C16: a failing best-score store at game over does not fail or roll back
\* the run: endGame still leaves the phase Over, with score, maxCombo and the
\* run statistics as they were.
C16_StoreFailureHarmless ==
  last.op = "endGame" =>
     /\ Over(gameState)
     /\ gameState.score = pre.gameState.score
     /\ gameState.maxCombo = pre.gameState.maxCombo
     /\ statsRef = pre.statsRef

\* C17: within one run no two tiles share an id. The id of a tile starts with
\* the time of its creation, and the creations of a run are apart in time:
\* startGame leaves a registry of the seed tile alone, every spawn comes more
\* than 800 / 3 ms after the creation before it, and the tiles of the registry
\* carry ids in the order of their creation.
C17_IdsDistinct ==
  /\ \A i, j \in DOMAIN gameState.tiles :
       i < j => gameState.tiles[i].id < gameState.tiles[j].id
  /\ last.op = "startGame" =>
       Len(gameState.tiles) = 1 /\ sinceLastTile = 0
  /\ SpawnTick =>
       /\ (pre.sinceLastTile + 16) * 3 > 800
       /\ sinceLastTile = 0
       /\ \A i \in DOMAIN pre.gameState.tiles :
            pre.gameState.tiles[i].id
              < gameState.tiles[Len(gameState.tiles)].id

\* a tile has been spawned after earlier tiles of the run left the registry
C17_Witness ==
  /\ SpawnTick
  /\ statsRef.totalTiles + 1 > Len(gameState.tiles)
  /\ Len(gameState.tiles) >= 2

\* the run has been followed as far as the bounds go: the loop is active but
\* MaxRunTicks callbacks have run, or a spawn is due and MaxTiles are used up
HorizonReached ==
  /\ LoopActive(gameState)
  /\ \/ runTicks >= MaxRunTicks
     \/ /\ nextId >= MaxTiles
        /\ SpawnDue(Later(sinceLastTile, TickMs), tileIntervalRef,
                    gameState.gameSpeed)

Leavers(g) ==
  {i \in DOMAIN g.tiles :
     (g.tiles[i].position * 1000 * SpeedScale
        + 200 * g.gameSpeed * 16 * PosScale)
       > (InnerHeight + 100) * PosScale * 1000 * SpeedScale}

\* C19: every tile whose position exceeds the far boundary in a Running tick
\* is removed in that tick; the miss path runs exactly once for each such tile
\* that is Pending and Active and not for Hit, Missed or decoy tiles; two
\* Active tiles leaving in one tick cost exactly two lives (down to 0).
C19_BoundaryRemoval ==
  (last.op = "tick" /\ Running(pre.gameState)) =>
     LET old == pre.gameState
         n == Cardinality(Crossers(old))
     IN /\ \A j \in DOMAIN gameState.tiles :
             gameState.tiles[j].position <= (InnerHeight + 100) * PosScale
        /\ \A i \in Leavers(old) : \A j \in DOMAIN gameState.tiles :
             gameState.tiles[j].id # old.tiles[i].id
        /\ statsRef.missedTiles = pre.statsRef.missedTiles + n
        /\ gameState.lives = (IF old.lives >= n THEN old.lives - n ELSE 0)
        /\ Len(timers) - Len(pre.timers) <= n
        /\ n = 0 => gameState.combo = old.combo /\ timers = RunTimers(pre.timers, 16)
        /\ (n = 2 /\ old.lives >= 2) => gameState.lives = old.lives - 2

\* two Active tiles have left in one tick and cost two lives
C19_Witness ==
  /\ last.op = "tick" /\ Running(pre.gameState)
  /\ Cardinality(Crossers(pre.gameState)) = 2
  /\ gameState.lives = pre.gameState.lives - 2

\* a hit tile has left the field in a tick
C19_HitLeaves ==
  /\ last.op = "tick" /\ Running(pre.gameState)
  /\ \E i \in Leavers(pre.gameState) : pre.gameState.tiles[i].isHit

\* C20: a Hit tile stays in the registry until 300 ms have passed since the
\* hit: the tick that immediately follows a hit does not remove the tile that
\* was hit, unless the tile has left the field.
C20_HitGrace ==
  [][(HitPending /\ Running(gameState) /\ last'.op = "tick") =>
       \A i \in DOMAIN gameState.tiles :
         (/\ gameState.tiles[i].isHit
          /\ ~pre.gameState.tiles[i].isHit
          /\ i \notin Leavers(gameState)) =>
           \E j \in DOMAIN gameState'.tiles :
             gameState'.tiles[j].id = gameState.tiles[i].id]_vars

\* ======================================================= claims C21 - C30
\* ids of registry tiles that are not ids of registry old
NewIds(old, tiles) ==
  {tiles[j].id : j \in DOMAIN tiles} \ {old[i].id : i \in DOMAIN old}

\* C21: a Running tick spawns a tile if and only if the time elapsed since
\* the last spawn exceeds spawnInterval / gameSpeed; it then appends exactly
\* one new Pending tile at position 0, sets the time of the last spawn to now
\* and adds exactly 1 to totalSpawned; no tick spawns more than one tile.
C21_SpawnExactlyWhenDue ==
  (last.op = "tick" /\ Running(pre.gameState)) =>
     LET old == pre.gameState
         elapsed == IF pre.sinceLastTile + 16 <= Horizon
                    THEN pre.sinceLastTile + 16 ELSE Horizon
         due == elapsed * old.gameSpeed > pre.tileIntervalRef * SpeedScale
         new == NewIds(old.tiles, gameState.tiles)
         n == Len(gameState.tiles)
     IN /\ Cardinality(new) <= 1
        /\ due =>
             /\ Cardinality(new) = 1
             /\ n >= 1
             /\ gameState.tiles[n].id \in new
             /\ gameState.tiles[n].position = 0
             /\ ~gameState.tiles[n].isHit /\ ~gameState.tiles[n].isMissed
             /\ sinceLastTile = 0
             /\ statsRef.totalTiles = pre.statsRef.totalTiles + 1
        /\ ~due =>
             /\ new = {}
             /\ sinceLastTile = elapsed
             /\ statsRef.totalTiles = pre.statsRef.totalTiles

\* a tile has been spawned at a speed above 1, before the undivided interval
\* had passed
C21_Witness ==
  /\ SpawnTick /\ Running(pre.gameState)
  /\ pre.gameState.gameSpeed > SpeedScale
  /\ pre.sinceLastTile + 16 <= pre.tileIntervalRef
  /\ NewIds(pre.gameState.tiles, gameState.tiles) # {}
  /\ sinceLastTile = 0

\* C22: the position of every live tile is non-decreasing over any sequence
\* of operations, and each tick in phase Running increases the position of
\* every tile that was in the registry before the tick by
\* 200 * gameSpeed * 16 / 1000 (> 0); hitTile, pauseGame and miss processing
\* never change a position.
C22_PositionsOnlyGrow ==
  \A i \in DOMAIN pre.gameState.tiles, j \in DOMAIN gameState.tiles :
    pre.gameState.tiles[i].id = gameState.tiles[j].id =>
      LET before == pre.gameState.tiles[i].position
          after == gameState.tiles[j].position
      IN /\ after >= before
         /\ (last.op = "tick" /\ Running(pre.gameState)) =>
              /\ (after - before) * 1000 * SpeedScale
                   = 200 * pre.gameState.gameSpeed * 16 * PosScale
              /\ after > before
         /\ last.op \in {"hitTile", "pauseGame", "endGame"} => after = before

\* a tick at a speed above 1 has moved a tile while an Active tile left the
\* field unresolved
C22_Witness ==
  /\ MissTick
  /\ pre.gameState.gameSpeed > SpeedScale
  /\ \E i \in DOMAIN pre.gameState.tiles, j \in DOMAIN gameState.tiles :
       /\ pre.gameState.tiles[i].id = gameState.tiles[j].id
       /\ gameState.tiles[j].position > pre.gameState.tiles[i].position

\* a tick at a speed above 1 has moved a Hit tile
C22_HitTileMoved ==
  /\ last.op = "tick" /\ Running(pre.gameState)
  /\ pre.gameState.gameSpeed > SpeedScale
  /\ \E i \in DOMAIN pre.gameState.tiles, j \in DOMAIN gameState.tiles :
       /\ pre.gameState.tiles[i].id = gameState.tiles[j].id
       /\ gameState.tiles[j].isHit

\* C23: every tile's outcome starts Pending and changes at most once, to Hit
\* or to Missed, and never changes afterwards: no reachable state holds a tile
\* with both isHit and isMissed true, and no tile goes from Hit or Missed back
\* to Pending or from one resolved outcome to the other.
C23_OutcomeChangesOnce ==
  /\ \A j \in DOMAIN gameState.tiles :
       /\ ~(gameState.tiles[j].isHit /\ gameState.tiles[j].isMissed)
       /\ gameState.tiles[j].id \in NewIds(pre.gameState.tiles, gameState.tiles)
            => ~gameState.tiles[j].isHit /\ ~gameState.tiles[j].isMissed
  /\ \A i \in DOMAIN pre.gameState.tiles, j \in DOMAIN gameState.tiles :
       pre.gameState.tiles[i].id = gameState.tiles[j].id =>
         /\ pre.gameState.tiles[i].isHit =>
              gameState.tiles[j].isHit /\ ~gameState.tiles[j].isMissed
         /\ pre.gameState.tiles[i].isMissed =>
              gameState.tiles[j].isMissed /\ ~gameState.tiles[j].isHit

\* a Hit tile has stayed Hit through a tick, in a run that has missed a tile
C23_Witness ==
  /\ last.op = "tick" /\ Running(pre.gameState)
  /\ statsRef.missedTiles >= 1
  /\ \E i \in DOMAIN pre.gameState.tiles, j \in DOMAIN gameState.tiles :
       /\ pre.gameState.tiles[i].id = gameState.tiles[j].id
       /\ pre.gameState.tiles[i].isHit
       /\ gameState.tiles[j].isHit /\ ~gameState.tiles[j].isMissed

\* C24: the phase is Over only for a run whose lives are 0: a game-over
\* callback scheduled by a miss in one run never ends a later run, so after
\* startGame the new run keeps isGameOver false until its own lives reach 0.
C24_OverOnlyAtZeroLives ==
  (last.op = "endGame" /\ pre.gameState.isPlaying) =>
     /\ pre.gameState.lives = 0
     /\ gameState.lives = 0

\* C25: in every reachable state of a run the miss counter equals the number
\* of lives lost, missedTiles = 3 - lives, also for Active tiles that leave
\* the field after lives has reached 0 and before the run is Over.
C25_MissesAreLivesLost == statsRef.missedTiles = 3 - gameState.lives

\* C26: in every reachable state maxCombo >= combo >= 0, and within one run
\* maxCombo and score never decrease (only startGame and resetGame set them
\* back to 0).
C26_ComboBelowMaxCombo ==
  /\ gameState.combo >= 0
  /\ gameState.maxCombo >= gameState.combo
  /\ last.op \in {"hitTile", "tick", "pauseGame", "endGame"} =>
       /\ gameState.maxCombo >= pre.gameState.maxCombo
       /\ gameState.score >= pre.gameState.score

\* a tile has been hit after a miss ended a longer streak: maxCombo stays
\* above combo
C26_Witness ==
  /\ HitPending
  /\ statsRef.missedTiles >= 1
  /\ gameState.combo >= 1
  /\ gameState.maxCombo > gameState.combo
  /\ gameState.maxCombo = pre.gameState.maxCombo

\* the last operation was the pauseGame that resumed the run
Resumed ==
  /\ last.op = "pauseGame"
  /\ Paused(pre.gameState)
  /\ Running(gameState)

\* C27: time spent Paused does not count toward the spawn scheduler or the
\* hit-tile removal grace: the first tick after resume spawns a tile only if
\* the time elapsed since the last spawn without the pause exceeds
\* spawnInterval / gameSpeed, and it removes a Hit tile that is on the field
\* only if the tile is older than 300 ms without the pause, however long the
\* pause lasted.
C27_PauseStopsTheClock ==
  [][(Resumed /\ last'.op = "tick") =>
       /\ statsRef'.totalTiles = statsRef.totalTiles + 1 =>
            (pre.sinceLastTile + 16) * gameState.gameSpeed
              > tileIntervalRef * SpeedScale
       /\ \A i \in DOMAIN gameState.tiles :
            (/\ gameState.tiles[i].isHit
             /\ i \notin Leavers(gameState)
             /\ \A j \in DOMAIN gameState'.tiles :
                  gameState'.tiles[j].id # gameState.tiles[i].id) =>
              pre.gameState.tiles[i].age + 16 > 300]_vars

\* C28: on the game-over screen isNewHighScore is true exactly when the
\* finished run's final score is strictly greater than the best score that was
\* stored before the run ended; a run that beats the stored best is shown as a
\* new high score after endGame has persisted it.
C28_NewHighScoreShown ==
  (last.op = "endGame" /\ pre.gameState.isPlaying /\ Over(gameState)) =>
     (isNewHighScore <=>
        pre.gameState.score > ParseHighScore(pre.highScoreItem))

\* tiles of registry old that differ in registry tiles
Changed(old, tiles) == {i \in DOMAIN old : tiles[i] # old[i]}

\* C29: a column click forwards a hit for at most one tile, namely the
\* Pending Active tile with the greatest position in that column and only if
\* that position exceeds 60% of the viewport height; decoy tiles, resolved
\* tiles and tiles above the threshold are never hit by a column click, and
\* nothing is forwarded when isPlaying is false.
C29_ColumnClickTarget ==
  last.op = "columnClick" =>
     LET old == pre.gameState.tiles
         hit == Changed(old, gameState.tiles)
     IN /\ Len(gameState.tiles) = Len(old)
        /\ Cardinality(hit) <= 1
        /\ statsRef.hitTiles = pre.statsRef.hitTiles + Cardinality(hit)
        /\ ~pre.gameState.isPlaying => hit = {}
        /\ \A i \in hit :
             /\ gameState.tiles[i] = [old[i] EXCEPT !.isHit = TRUE]
             /\ old[i].column = last.column
             /\ old[i].isBlack /\ ~old[i].isHit /\ ~old[i].isMissed
             /\ old[i].position * 10 > InnerHeight * 6 * PosScale
             /\ \A k \in DOMAIN old :
                  (/\ old[k].column = last.column /\ old[k].isBlack
                   /\ ~old[k].isHit /\ ~old[k].isMissed) =>
                    old[k].position <= old[i].position

\* a click on a column that holds two Pending Active tiles has hit the lower
\* one and left the upper one Pending
C29_Witness ==
  /\ last.op = "columnClick"
  /\ \E i, k \in DOMAIN gameState.tiles :
       /\ i # k
       /\ gameState.tiles[i].column = last.column
       /\ gameState.tiles[k].column = last.column
       /\ gameState.tiles[i].isHit /\ ~pre.gameState.tiles[i].isHit
       /\ gameState.tiles[k].isBlack /\ ~gameState.tiles[k].isHit
       /\ gameState.tiles[k].position < gameState.tiles[i].position

\* C30: initializeEngine is idempotent under concurrent calls: however many
\* times it is invoked, including two overlapping invocations at mount, at
\* most one AudioContext is ever created and isInitialized is set once.
C30_OneAudioContext ==
  /\ audio.created <= 1
  /\ audio.assigned <= 1

====
